---- MODULE Spec2Model ----
(***************************************************************************)
(* Model of the embedded-serialize codec (embedded-serialize/src/lib.rs)   *)
(* and of the code emitted by its derive macros                            *)
(* (embedded-serialize-derive/src/lib.rs).                                  *)
(*                                                                         *)
(* A byte buffer is a sequence of bytes; Rust index i is TLA+ index i+1.   *)
(* u8, i8, u16, i16 and i32 values are integers.  A u32 value does not fit *)
(* TLC's integers, so it is kept as two 16-bit halves [hi, lo].            *)
(***************************************************************************)
EXTENDS Integers, Sequences, FiniteSets, TLC

VARIABLES ty, val, buf, pc, ser, de

vars == <<ty, val, buf, pc, ser, de>>

(***************************************************************************)
(* Bounds of the model.                                                    *)
(***************************************************************************)
\* longest buffer handed to a call
MaxBufLen == 8
\* largest N of a sequence type [T; N]
MaxN == 4
\* largest number of fields of a record whose fields are primitives
MaxFields == 2
\* number of value choices per type
NumSeeds == 4
\* number of initial buffer contents per length
NumPatterns == 4

(***************************************************************************)
(* Machine arithmetic.                                                     *)
(***************************************************************************)
RECURSIVE BitOr(_, _)
\* a | b on naturals
BitOr(a, b) ==
    IF a = 0 THEN b
    ELSE IF b = 0 THEN a
    ELSE (IF a % 2 = 1 \/ b % 2 = 1 THEN 1 ELSE 0) + 2 * BitOr(a \div 2, b \div 2)

\* x as u8, x an unsigned integer
AsU8(x) == x % 256

\* x >> n, x: u16
U16Shr(x, n) == x \div (2 ^ n)

\* x << n, x: u16 (bits shifted out are lost)
U16Shl(x, n) == (x * (2 ^ n)) % 65536

\* v as u8, v: i8
I8AsU8(v) == IF v < 0 THEN v + 256 ELSE v

\* b as i8, b: u8
U8AsI8(b) == IF b >= 128 THEN b - 256 ELSE b

\* v as u16, v: i16
I16AsU16(v) == IF v < 0 THEN v + 65536 ELSE v

\* u as i16, u: u16
U16AsI16(u) == IF u >= 32768 THEN u - 65536 ELSE u

\* the u32 with value n, 0 <= n < 2^31
U32(n) == [hi |-> n \div 65536, lo |-> n % 65536]

\* b as u32, b: u8
U8AsU32(b) == [hi |-> 0, lo |-> b]

\* w as u8, w: u32
U32AsU8(w) == w.lo % 256

\* w >> n, w: u32, 0 <= n < 32
U32Shr(w, n) ==
    IF n >= 16 THEN [hi |-> 0, lo |-> w.hi \div (2 ^ (n - 16))]
    ELSE [hi |-> w.hi \div (2 ^ n),
          lo |-> (w.hi % (2 ^ n)) * (2 ^ (16 - n)) + w.lo \div (2 ^ n)]

\* w << n, w: u32, 0 <= n < 32 (bits shifted out are lost)
U32Shl(w, n) ==
    IF n >= 16 THEN [hi |-> (w.lo % (2 ^ (32 - n))) * (2 ^ (n - 16)), lo |-> 0]
    ELSE [hi |-> (w.hi % (2 ^ (16 - n))) * (2 ^ n) + w.lo \div (2 ^ (16 - n)),
          lo |-> (w.lo % (2 ^ (16 - n))) * (2 ^ n)]

\* a | b, a, b: u32
U32Or(a, b) == [hi |-> BitOr(a.hi, b.hi), lo |-> BitOr(a.lo, b.lo)]

\* v as u32, v: i32 (two's complement; 2^31 itself is not a TLC integer)
I32AsU32(v) ==
    IF v >= 0 THEN U32(v)
    ELSE LET m == (v + 2147483647) + 1
         IN  [hi |-> 32768 + m \div 65536, lo |-> m % 65536]

\* w as i32, w: u32
U32AsI32(w) ==
    IF w.hi < 32768 THEN w.hi * 65536 + w.lo
    ELSE (((w.hi - 32768) * 65536 + w.lo) - 2147483647) - 1

(***************************************************************************)
(* Buffers and results.                                                    *)
(***************************************************************************)
\* buf[i] = b
Put(b, i, x) == [b EXCEPT ![i + 1] = x]

\* buf[i]
Get(b, i) == b[i + 1]

\* &buf[off..], defined when off <= buf.len()
Slice(b, off) == SubSeq(b, off + 1, Len(b))

\* buf[..off]
Prefix(b, off) == SubSeq(b, 1, off)

\* the value field of a result that carries no value
NoValue == "none"

\* Result<usize, SerializeError> together with the buffer the call leaves
\* (cur: the cursor after each element or field of a sequence or record)
SerOk(n, b) == [res |-> "Ok", n |-> n, buf |-> b, cur |-> <<>>]

SerErr(e, b) == [res |-> e, n |-> 0, buf |-> b, cur |-> <<>>]

\* Result<Self, DeserializeError> together with the indices the call read
DeOk(v, rd) == [res |-> "Ok", val |-> v, reads |-> rd, cur |-> <<>>]

DeErr(e, rd) == [res |-> e, val |-> NoValue, reads |-> rd, cur |-> <<>>]

\* the indices rd of a slice &buf[off..], as indices of buf
Shift(rd, off) == {i + off : i \in rd}

(***************************************************************************)
(* Primitive implementations.                                              *)
(***************************************************************************)
u8_serialize(v, b) ==
    IF Len(b) < 1 THEN SerErr("BufferTooSmall", b)
    ELSE SerOk(1, Put(b, 0, v))

u8_deserialize(b) ==
    IF Len(b) < 1 THEN DeErr("BufferTooSmall", {})
    ELSE DeOk(Get(b, 0), {0})

\* u16_serialize checking the length byte by byte as it writes
u16_serialize_bytewise(v, b) ==
    IF Len(b) < 1 THEN SerErr("BufferTooSmall", b)
    ELSE IF Len(b) < 2 THEN SerErr("BufferTooSmall", Put(b, 0, AsU8(U16Shr(v, 8))))
    ELSE SerOk(2, Put(Put(b, 0, AsU8(U16Shr(v, 8))), 1, AsU8(v)))

\* u16_serialize writing the low byte first
u16_serialize_le(v, b) ==
    IF Len(b) < 2 THEN SerErr("BufferTooSmall", b)
    ELSE SerOk(2, Put(Put(b, 0, AsU8(v)), 1, AsU8(U16Shr(v, 8))))

u16_serialize(v, b) ==
    IF Len(b) < 2 THEN SerErr("BufferTooSmall", b)
    ELSE SerOk(2, Put(Put(b, 0, AsU8(U16Shr(v, 8))), 1, AsU8(v)))

u16_deserialize(b) ==
    IF Len(b) < 2 THEN DeErr("BufferTooSmall", {})
    ELSE DeOk(BitOr(U16Shl(Get(b, 0), 8), Get(b, 1)), {0, 1})

\* u32_serialize with the two middle bytes exchanged
u32_serialize_swapped(v, b) ==
    IF Len(b) < 4 THEN SerErr("BufferTooSmall", b)
    ELSE SerOk(4, Put(Put(Put(Put(b, 0, U32AsU8(U32Shr(v, 24))),
                                     1, U32AsU8(U32Shr(v, 8))),
                                     2, U32AsU8(U32Shr(v, 16))),
                                     3, U32AsU8(v)))

u32_serialize(v, b) ==
    IF Len(b) < 4 THEN SerErr("BufferTooSmall", b)
    ELSE SerOk(4, Put(Put(Put(Put(b, 0, U32AsU8(U32Shr(v, 24))),
                                     1, U32AsU8(U32Shr(v, 16))),
                                     2, U32AsU8(U32Shr(v, 8))),
                                     3, U32AsU8(v)))

u32_deserialize(b) ==
    IF Len(b) < 4 THEN DeErr("BufferTooSmall", {})
    ELSE DeOk(U32Or(U32Or(U32Or(U32Shl(U8AsU32(Get(b, 0)), 24),
                                U32Shl(U8AsU32(Get(b, 1)), 16)),
                          U32Shl(U8AsU32(Get(b, 2)), 8)),
                    U8AsU32(Get(b, 3))),
              {0, 1, 2, 3})

i8_serialize(v, b) ==
    IF Len(b) < 1 THEN SerErr("BufferTooSmall", b)
    ELSE SerOk(1, Put(b, 0, I8AsU8(v)))

i8_deserialize(b) ==
    IF Len(b) < 1 THEN DeErr("BufferTooSmall", {})
    ELSE DeOk(U8AsI8(Get(b, 0)), {0})

i16_serialize(v, b) == u16_serialize(I16AsU16(v), b)

\* i16_deserialize falling back to 0 when the u16 cannot be read
i16_deserialize_default(b) ==
    LET r == u16_deserialize(b)
    IN  IF r.res # "Ok" THEN DeOk(0, r.reads) ELSE DeOk(U16AsI16(r.val), r.reads)

i16_deserialize(b) ==
    LET r == u16_deserialize(b)
    IN  IF r.res # "Ok" THEN r ELSE DeOk(U16AsI16(r.val), r.reads)

\* i32_serialize going through u16, as i16 does
i32_serialize_as_u16(v, b) == u16_serialize(I32AsU32(v).lo, b)

i32_serialize(v, b) == u32_serialize(I32AsU32(v), b)

i32_deserialize(b) ==
    LET r == u32_deserialize(b)
    IN  IF r.res # "Ok" THEN r ELSE DeOk(U32AsI32(r.val), r.reads)

bool_serialize(v, b) ==
    IF Len(b) = 0 THEN SerErr("BufferTooSmall", b)
    ELSE SerOk(1, Put(b, 0, IF v THEN 1 ELSE 0))

\* bool_deserialize taking every non-zero byte for true
bool_deserialize_nonzero(b) ==
    IF Len(b) = 0 THEN DeErr("BufferTooSmall", {})
    ELSE IF Get(b, 0) = 0 THEN DeOk(FALSE, {0}) ELSE DeOk(TRUE, {0})

bool_deserialize(b) ==
    IF Len(b) = 0 THEN DeErr("BufferTooSmall", {})
    ELSE CASE Get(b, 0) = 0 -> DeOk(FALSE, {0})
           [] Get(b, 0) = 1 -> DeOk(TRUE, {0})
           [] OTHER -> DeErr("InvalidData", {0})

(***************************************************************************)
(* Types: a primitive, a sequence [T; N], or a record with derived impls.  *)
(***************************************************************************)
PrimKinds == {"u8", "i8", "u16", "i16", "u32", "i32", "bool"}

Prim(k) == [kind |-> k]

ArrayOf(T, n) == [kind |-> "array", elem |-> T, n |-> n]

StructOf(fs) == [kind |-> "struct", fields |-> fs]

IsPrim(T) == T.kind \in PrimKinds

Max(a, b) == IF a >= b THEN a ELSE b

RECURSIVE AlignOf(_)
\* core::mem::align_of::<T>() on the 32-bit targets the crate names
AlignOf(T) ==
    CASE T.kind \in {"u8", "i8", "bool"} -> 1
      [] T.kind \in {"u16", "i16"} -> 2
      [] T.kind \in {"u32", "i32"} -> 4
      [] T.kind = "array" -> AlignOf(T.elem)
      [] T.kind = "struct" ->
            IF T.fields = <<>> THEN 1
            ELSE Max(AlignOf(Head(T.fields)), AlignOf(StructOf(Tail(T.fields))))

RECURSIVE SizeOf(_)
RECURSIVE SumSizeOf(_)
\* sum of size_of over a field list
SumSizeOf(fs) == IF fs = <<>> THEN 0 ELSE SizeOf(Head(fs)) + SumSizeOf(Tail(fs))

\* core::mem::size_of::<T>(): a record is laid out without inner padding and
\* its size is rounded up to a multiple of its alignment
SizeOf(T) ==
    CASE T.kind \in {"u8", "i8", "bool"} -> 1
      [] T.kind \in {"u16", "i16"} -> 2
      [] T.kind \in {"u32", "i32"} -> 4
      [] T.kind = "array" -> T.n * SizeOf(T.elem)
      [] T.kind = "struct" ->
            LET s == SumSizeOf(T.fields)
                a == AlignOf(T)
            IN  ((s + a - 1) \div a) * a

(***************************************************************************)
(* Sequences and generated records.                                        *)
(***************************************************************************)
RECURSIVE Serialize(_, _, _)
RECURSIVE Deserialize(_, _)
RECURSIVE array_serialize_loop(_, _, _, _, _, _)
RECURSIVE array_deserialize_loop(_, _, _, _, _, _, _)
RECURSIVE derive_serialize_fields(_, _, _, _, _, _)
RECURSIVE derive_deserialize_fields(_, _, _, _, _, _, _)
RECURSIVE derive_serialize_fields_padded(_, _, _, _, _, _)
RECURSIVE array_deserialize_loop_fixed(_, _, _, _, _, _, _)

\* for item in self.iter() { let size = item.serialize(&mut buf[total..])?; total += size; }
\* (i: index of the next item, 1-based; cs: the cursors so far)
array_serialize_loop(T, v, b, i, total, cs) ==
    IF i > T.n THEN [SerOk(total, b) EXCEPT !.cur = cs]
    ELSE IF total > Len(b) THEN [SerErr("Panic", b) EXCEPT !.cur = cs]
    ELSE LET r == Serialize(T.elem, v[i], Slice(b, total))
             nb == Prefix(b, total) \o r.buf
         IN  IF r.res # "Ok" THEN [SerErr(r.res, nb) EXCEPT !.cur = cs]
             ELSE array_serialize_loop(T, v, nb, i + 1, total + r.n,
                                       Append(cs, total + r.n))

array_serialize(T, v, b) == array_serialize_loop(T, v, b, 1, 0, <<>>)

\* array_deserialize_loop that never advances offset
array_deserialize_loop_fixed(T, b, i, offset, array, rd, cs) ==
    IF i > T.n THEN [DeOk(array, rd) EXCEPT !.cur = cs]
    ELSE IF offset > Len(b) THEN [DeErr("Panic", rd) EXCEPT !.cur = cs]
    ELSE LET r == Deserialize(T.elem, Slice(b, offset))
             nrd == rd \cup Shift(r.reads, offset)
         IN  IF r.res # "Ok" THEN [DeErr(r.res, nrd) EXCEPT !.cur = cs]
             ELSE array_deserialize_loop_fixed(T, b, i + 1, offset,
                                               Append(array, r.val), nrd,
                                               Append(cs, offset))

\* for i in 0..N { let item = T::deserialize(&buf[offset..])?; offset += size_of::<T>(); array[i] = item; }
array_deserialize_loop(T, b, i, offset, array, rd, cs) ==
    IF i > T.n THEN [DeOk(array, rd) EXCEPT !.cur = cs]
    ELSE IF offset > Len(b) THEN [DeErr("Panic", rd) EXCEPT !.cur = cs]
    ELSE LET r == Deserialize(T.elem, Slice(b, offset))
             nrd == rd \cup Shift(r.reads, offset)
         IN  IF r.res # "Ok" THEN [DeErr(r.res, nrd) EXCEPT !.cur = cs]
             ELSE array_deserialize_loop(T, b, i + 1, offset + SizeOf(T.elem),
                                         Append(array, r.val), nrd,
                                         Append(cs, offset + SizeOf(T.elem)))

array_deserialize(T, b) == array_deserialize_loop(T, b, 1, 0, <<>>, {}, <<>>)

\* derive_serialize_fields placing every field at a multiple of its alignment
derive_serialize_fields_padded(T, v, b, i, offset, cs) ==
    IF i > Len(T.fields) THEN [SerOk(offset, b) EXCEPT !.cur = cs]
    ELSE LET a == AlignOf(T.fields[i])
             at == ((offset + a - 1) \div a) * a
         IN  IF at > Len(b) THEN [SerErr("Panic", b) EXCEPT !.cur = cs]
             ELSE LET r == Serialize(T.fields[i], v[i], Slice(b, at))
                      nb == Prefix(b, at) \o r.buf
                  IN  IF r.res # "Ok" THEN [SerErr(r.res, nb) EXCEPT !.cur = cs]
                      ELSE derive_serialize_fields_padded(T, v, nb, i + 1, at + r.n,
                                                          Append(cs, at + r.n))

\* the generated blocks { let size = self.#field.serialize(&mut buf[offset..])?; offset += size; }
derive_serialize_fields(T, v, b, i, offset, cs) ==
    IF i > Len(T.fields) THEN [SerOk(offset, b) EXCEPT !.cur = cs]
    ELSE IF offset > Len(b) THEN [SerErr("Panic", b) EXCEPT !.cur = cs]
    ELSE LET r == Serialize(T.fields[i], v[i], Slice(b, offset))
             nb == Prefix(b, offset) \o r.buf
         IN  IF r.res # "Ok" THEN [SerErr(r.res, nb) EXCEPT !.cur = cs]
             ELSE derive_serialize_fields(T, v, nb, i + 1, offset + r.n,
                                          Append(cs, offset + r.n))

\* derive_serialize giving the buffer back as it was when a field fails
derive_serialize_transactional(T, v, b) ==
    LET r == derive_serialize_fields(T, v, b, 1, 0, <<>>)
    IN  IF r.res # "Ok" THEN [r EXCEPT !.buf = b] ELSE r

\* the generated fn serialize: let mut offset = 0; #serialize_fields Ok(offset)
derive_serialize(T, v, b) == derive_serialize_fields(T, v, b, 1, 0, <<>>)

\* the generated statements let #field = Deserialize::deserialize(&buf[offset..])?;
\* offset += size_of::<#field_type>();
derive_deserialize_fields(T, b, i, offset, fields, rd, cs) ==
    IF i > Len(T.fields) THEN [DeOk(fields, rd) EXCEPT !.cur = cs]
    ELSE IF offset > Len(b) THEN [DeErr("Panic", rd) EXCEPT !.cur = cs]
    ELSE LET r == Deserialize(T.fields[i], Slice(b, offset))
             nrd == rd \cup Shift(r.reads, offset)
         IN  IF r.res # "Ok" THEN [DeErr(r.res, nrd) EXCEPT !.cur = cs]
             ELSE derive_deserialize_fields(T, b, i + 1, offset + SizeOf(T.fields[i]),
                                            Append(fields, r.val), nrd,
                                            Append(cs, offset + SizeOf(T.fields[i])))

\* the generated fn deserialize: let mut offset = 0; #deserialize_fields Ok(Self { .. })
derive_deserialize(T, b) == derive_deserialize_fields(T, b, 1, 0, <<>>, {}, <<>>)

\* Serialize::serialize, resolved by the type of self
Serialize(T, v, b) ==
    CASE T.kind = "u8" -> u8_serialize(v, b)
      [] T.kind = "i8" -> i8_serialize(v, b)
      [] T.kind = "u16" -> u16_serialize(v, b)
      [] T.kind = "i16" -> i16_serialize(v, b)
      [] T.kind = "u32" -> u32_serialize(v, b)
      [] T.kind = "i32" -> i32_serialize(v, b)
      [] T.kind = "bool" -> bool_serialize(v, b)
      [] T.kind = "array" -> array_serialize(T, v, b)
      [] T.kind = "struct" -> derive_serialize(T, v, b)

\* Deserialize::deserialize, resolved by Self
Deserialize(T, b) ==
    CASE T.kind = "u8" -> u8_deserialize(b)
      [] T.kind = "i8" -> i8_deserialize(b)
      [] T.kind = "u16" -> u16_deserialize(b)
      [] T.kind = "i16" -> i16_deserialize(b)
      [] T.kind = "u32" -> u32_deserialize(b)
      [] T.kind = "i32" -> i32_deserialize(b)
      [] T.kind = "bool" -> bool_deserialize(b)
      [] T.kind = "array" -> array_deserialize(T, b)
      [] T.kind = "struct" -> derive_deserialize(T, b)

(***************************************************************************)
(* Inputs: the types, values and buffers the calls are applied to.         *)
(***************************************************************************)
PrimTypes == {Prim(k) : k \in PrimKinds}

\* [T; N] of a primitive T
PrimArrayTypes == {ArrayOf(T, n) : T \in PrimTypes, n \in 0..MaxN}

\* records whose fields are primitives (the record with no field included)
PrimStructTypes == {StructOf(fs) : fs \in UNION {[1..n -> PrimTypes] : n \in 0..MaxFields}}

\* the record {a: u16, b: u8}
RecAB == StructOf(<<Prim("u16"), Prim("u8")>>)

\* sequences of records, records nested in records, sequences in records
NestedTypes ==
    { ArrayOf(RecAB, 2),
      StructOf(<<RecAB, Prim("u8")>>),
      StructOf(<<Prim("u8"), RecAB>>),
      ArrayOf(ArrayOf(Prim("u8"), 2), 2),
      ArrayOf(ArrayOf(Prim("bool"), 2), 2),
      StructOf(<<ArrayOf(Prim("bool"), 2), Prim("u16")>>),
      StructOf(<<Prim("u8"), ArrayOf(Prim("u16"), 2)>>),
      ArrayOf(StructOf(<<Prim("u8"), Prim("bool")>>), 2),
      ArrayOf(StructOf(<<>>), 2) }

Types == PrimTypes \cup PrimArrayTypes \cup PrimStructTypes \cup NestedTypes

\* representative values of a primitive type: 0, the extremes, -1, the
\* examples 0x1234, 0x0102, 0x01020304 and 0x03
PrimValues(k) ==
    CASE k = "u8" -> <<0, 18, 255, 3>>
      [] k = "i8" -> <<0, -1, -128, 127>>
      [] k = "u16" -> <<0, 4660, 258, 65535>>
      [] k = "i16" -> <<0, -1, -32768, 32767>>
      [] k = "u32" -> <<U32(0), U32(16909060), [hi |-> 65535, lo |-> 65535],
                        [hi |-> 32768, lo |-> 0]>>
      [] k = "i32" -> <<0, -1, (-2147483647) - 1, 2147483647>>
      [] k = "bool" -> <<FALSE, TRUE>>

RECURSIVE ValueOf(_, _)
\* the s-th value of type T; neighbouring elements and fields differ
ValueOf(T, s) ==
    CASE IsPrim(T) -> PrimValues(T.kind)[(s % Len(PrimValues(T.kind))) + 1]
      [] T.kind = "array" -> [i \in 1..T.n |-> ValueOf(T.elem, s + i - 1)]
      [] T.kind = "struct" -> [i \in 1..Len(T.fields) |-> ValueOf(T.fields[i], s + i - 1)]

\* byte i of the p-th initial buffer content: p = 0 is 0, 1, 2, 0, 1, 2, ...
\* (valid booleans, then an invalid one), p = 1 is 1, 2, 0, 1, 2, 0, ...,
\* p = 2 is 0xAA everywhere
Pattern(p, i) ==
    IF p = 0 THEN i % 3
    ELSE IF p = 1 THEN (i + 1) % 3
    ELSE IF p = 2 THEN 170
    ELSE (p * 37 + i * 59) % 256

Buffer(len, p) == [i \in 1..len |-> Pattern(p, i - 1)]

NoResult == [res |-> "None"]

(***************************************************************************)
(* The calls.                                                              *)
(***************************************************************************)
Init ==
    /\ ty \in Types
    /\ \E s \in 0..(NumSeeds - 1) : val = ValueOf(ty, s)
    /\ \E len \in 0..MaxBufLen, p \in 0..(NumPatterns - 1) : buf = Buffer(len, p)
    /\ pc = "start"
    /\ ser = NoResult
    /\ de = NoResult

\* val.serialize(&mut buf)
SerializeCall ==
    /\ pc = "start"
    /\ ser' = Serialize(ty, val, buf)
    /\ pc' = "serialized"
    /\ UNCHANGED <<ty, val, buf, de>>

\* T::deserialize(&buf) on a buffer of any content
DeserializeCall ==
    /\ pc = "start"
    /\ de' = Deserialize(ty, buf)
    /\ pc' = "deserialized"
    /\ UNCHANGED <<ty, val, buf, ser>>

\* T::deserialize(&buf) on the buffer a successful serialize has filled
DeserializeEncoded ==
    /\ pc = "serialized"
    /\ ser.res = "Ok"
    /\ de' = Deserialize(ty, ser.buf)
    /\ pc' = "roundtrip"
    /\ UNCHANGED <<ty, val, buf, ser>>

Next == SerializeCall \/ DeserializeCall \/ DeserializeEncoded

Spec == Init /\ [][Next]_vars

(***************************************************************************)
(* The wire format the claims speak of: widths and byte layout.            *)
(***************************************************************************)
\* width in bytes of a primitive on the wire
PrimWidth(k) ==
    CASE k \in {"u8", "i8", "bool"} -> 1
      [] k \in {"u16", "i16"} -> 2
      [] k \in {"u32", "i32"} -> 4

\* byte i (0 = most significant) of the big-endian two's-complement pattern
\* of v: floor(v / 2^(8(w-1-i))) mod 256; a boolean is 1 or 0
ByteOf(k, v, i) ==
    CASE k = "bool" -> IF v THEN 1 ELSE 0
      [] k = "u32" -> IF i < 2 THEN (v.hi \div (2 ^ (8 * (1 - i)))) % 256
                      ELSE (v.lo \div (2 ^ (8 * (3 - i)))) % 256
      [] OTHER -> (v \div (2 ^ (8 * (PrimWidth(k) - 1 - i)))) % 256

PrimEnc(k, v) == [i \in 1..PrimWidth(k) |-> ByteOf(k, v, i - 1)]

\* the element types of a sequence, the field types of a record
ElemTypes(T) == IF T.kind = "array" THEN [i \in 1..T.n |-> T.elem] ELSE T.fields

RECURSIVE Width(_)
RECURSIVE OffsetOf(_, _)
RECURSIVE EncOf(_, _)
RECURSIVE ConcatEnc(_, _, _)
RECURSIVE LeafSpans(_, _)

\* encoded width of a type: the sum of the widths of its primitives
Width(T) == IF IsPrim(T) THEN PrimWidth(T.kind) ELSE OffsetOf(ElemTypes(T), Len(ElemTypes(T)))

\* the summed width of the first i of the types Ts
OffsetOf(Ts, i) == IF i = 0 THEN 0 ELSE OffsetOf(Ts, i - 1) + Width(Ts[i])

\* the encoding of a value: its primitives' encodings, concatenated in order
EncOf(T, v) == IF IsPrim(T) THEN PrimEnc(T.kind, v) ELSE ConcatEnc(ElemTypes(T), v, 1)

ConcatEnc(Ts, vs, i) ==
    IF i > Len(Ts) THEN <<>> ELSE EncOf(Ts[i], vs[i]) \o ConcatEnc(Ts, vs, i + 1)

\* <<start, end>> of every primitive of T on the wire, T starting at base
LeafSpans(T, base) ==
    IF IsPrim(T) THEN {<<base, base + PrimWidth(T.kind)>>}
    ELSE UNION {LeafSpans(ElemTypes(T)[i], base + OffsetOf(ElemTypes(T), i - 1)) :
                    i \in 1..Len(ElemTypes(T))}

\* <<start, end>> of every element or field of a sequence or record T
TopSpans(T) ==
    {<<OffsetOf(ElemTypes(T), i - 1), OffsetOf(ElemTypes(T), i)>> : i \in 1..Len(ElemTypes(T))}

\* start of the first span that does not end within len bytes
FirstMisfit(spans, len) ==
    LET bad == {sp \in spans : sp[2] > len}
    IN  (CHOOSE sp \in bad : \A o \in bad : sp[1] <= o[1])[1]

IsComposite(T) == T.kind \in {"array", "struct"}

(***************************************************************************)
(* C1..C4: primitives.                                                     *)
(***************************************************************************)
\* C1: for a primitive type and a buffer at least as long as its width,
\* serialize succeeds and deserialize of the resulting buffer returns the
\* value that was serialized.
C1_PrimitiveRoundTrip ==
    (IsPrim(ty) /\ Len(buf) >= PrimWidth(ty.kind)) =>
        /\ pc = "serialized" => ser.res = "Ok"
        /\ pc = "roundtrip" => (de.res = "Ok" /\ de.val = val)

\* a signed minimum has made the round trip
C1_Witness ==
    /\ pc = "roundtrip"
    /\ ty = Prim("i16")
    /\ val = -32768
    /\ de.res = "Ok"
    /\ de.val = -32768

\* C2: a successful serialize of a w-byte integer returns w and stores the
\* value most-significant byte first, a signed value as its two's-complement
\* pattern; 0x1234 is [0x12, 0x34] and 0x01020304 is [1, 2, 3, 4].
C2_BigEndianLayout ==
    (pc = "serialized" /\ IsPrim(ty) /\ ty.kind # "bool" /\ ser.res = "Ok") =>
        /\ ser.n = PrimWidth(ty.kind)
        /\ \A i \in 0..(ser.n - 1) : Get(ser.buf, i) = ByteOf(ty.kind, val, i)
        /\ (ty.kind = "u16" /\ val = 4660) => Prefix(ser.buf, 2) = <<18, 52>>
        /\ (ty.kind = "u32" /\ val = U32(16909060)) => Prefix(ser.buf, 4) = <<1, 2, 3, 4>>
        /\ (ty.kind = "i32" /\ val = -1) => Prefix(ser.buf, 4) = <<255, 255, 255, 255>>

\* 0x01020304 has been serialized
C2_Witness ==
    /\ pc = "serialized"
    /\ ty = Prim("u32")
    /\ val = U32(16909060)
    /\ ser.res = "Ok"
    /\ Prefix(ser.buf, 4) = <<1, 2, 3, 4>>

\* C3: bool::deserialize returns false for a first byte 0, true for 1,
\* InvalidData for any other first byte and BufferTooSmall on an empty
\* buffer; bool::serialize writes only 0 or 1.
C3_BoolDomain ==
    ty = Prim("bool") =>
        /\ pc = "deserialized" =>
              IF Len(buf) = 0 THEN de.res = "BufferTooSmall"
              ELSE CASE Get(buf, 0) = 0 -> (de.res = "Ok" /\ de.val = FALSE)
                     [] Get(buf, 0) = 1 -> (de.res = "Ok" /\ de.val = TRUE)
                     [] OTHER -> (de.res = "InvalidData" /\ de.val = NoValue)
        /\ (pc = "serialized" /\ ser.res = "Ok") =>
              (Get(ser.buf, 0) = (IF val THEN 1 ELSE 0) /\ Slice(ser.buf, 1) = Slice(buf, 1))

\* a first byte other than 0 and 1 has been rejected
C3_Witness ==
    /\ pc = "deserialized"
    /\ ty = Prim("bool")
    /\ Len(buf) > 0
    /\ Get(buf, 0) = 170
    /\ de.res = "InvalidData"

\* C4: serialize of a primitive into a buffer shorter than its width
\* returns BufferTooSmall and leaves every byte of the buffer as it was.
C4_ShortBufferNoOp ==
    (pc = "serialized" /\ IsPrim(ty) /\ Len(buf) < PrimWidth(ty.kind)) =>
        (ser.res = "BufferTooSmall" /\ ser.buf = buf)

\* a u32 has been refused a three-byte buffer
C4_Witness ==
    /\ pc = "serialized"
    /\ ty = Prim("u32")
    /\ Len(buf) = 3
    /\ ser.res = "BufferTooSmall"
    /\ ser.buf = buf

(***************************************************************************)
(* C5..C10: sequences and generated records.                               *)
(***************************************************************************)
\* the bytes of b from index from (inclusive) to index to (exclusive)
Bytes(b, from, to) == SubSeq(b, from + 1, to)

\* C5: serialize of a generated record into a buffer at least as long as the
\* sum of its fields' widths returns that sum and leaves the fields'
\* encodings in declaration order, each at the offset the previous fields
\* reached, without padding; {a: u16 = 0x0102, b: u8 = 3} gives [1, 2, 3] and
\* 3; a record without fields returns 0 and writes nothing.
C5_RecordConcatenation ==
    (pc = "serialized" /\ ty.kind = "struct" /\ Len(buf) >= Width(ty)) =>
        /\ ser.res = "Ok"
        /\ ser.n = Width(ty)
        /\ Prefix(ser.buf, ser.n) = EncOf(ty, val)
        /\ \A i \in 1..Len(ty.fields) :
              /\ ser.cur[i] = OffsetOf(ty.fields, i)
              /\ Bytes(ser.buf, OffsetOf(ty.fields, i - 1), OffsetOf(ty.fields, i))
                    = EncOf(ty.fields[i], val[i])
        /\ Slice(ser.buf, Width(ty)) = Slice(buf, Width(ty))
        /\ (ty = RecAB /\ val = <<258, 3>>) => (ser.n = 3 /\ Prefix(ser.buf, 3) = <<1, 2, 3>>)
        /\ ty.fields = <<>> => (ser.n = 0 /\ ser.buf = buf)

\* the record {a: 0x0102, b: 3} has been serialized into a longer buffer
C5_Witness ==
    /\ pc = "serialized"
    /\ ty = RecAB
    /\ val = <<258, 3>>
    /\ Len(buf) > 3
    /\ ser.res = "Ok"
    /\ ser.n = 3
    /\ Prefix(ser.buf, 3) = <<1, 2, 3>>

\* C6: a sequence of primitives, or a record whose fields are primitives,
\* serialized into a buffer of sufficient length and deserialized from it,
\* comes back equal, the decode cursor after each element or field being the
\* encode cursor after the same one.
C6_CompositeRoundTrip ==
    (pc = "roundtrip" /\ ty \in PrimArrayTypes \cup PrimStructTypes) =>
        /\ de.res = "Ok"
        /\ de.val = val
        /\ de.cur = ser.cur

\* a four-element sequence of u8 has made the round trip, order kept
C6_Witness ==
    /\ pc = "roundtrip"
    /\ ty = ArrayOf(Prim("u8"), 4)
    /\ val = <<0, 18, 255, 3>>
    /\ de.res = "Ok"
    /\ de.val = <<0, 18, 255, 3>>
    /\ de.cur = <<1, 2, 3, 4>>

RECURSIVE PaddingFree(_)
\* no record within T carries alignment padding
PaddingFree(T) ==
    CASE IsPrim(T) -> TRUE
      [] T.kind = "array" -> T.n = 0 \/ PaddingFree(T.elem)
      [] T.kind = "struct" ->
            /\ \A i \in 1..Len(T.fields) : PaddingFree(T.fields[i])
            /\ SumSizeOf(T.fields) % AlignOf(T) = 0

\* C7 as stated: the byte count a successful serialize returns equals
\* size_of of the type, for every supported type.
C7_WidthIsSizeOf ==
    (pc = "serialized" /\ ser.res = "Ok") => ser.n = SizeOf(ty)

\* C7, amended: a successful serialize returns the sum of the widths of the
\* value's primitives; that is size_of for a primitive and for every type
\* in which no record carries alignment padding, and less than size_of
\* otherwise; sequence and record decode advance the cursor by size_of.
C7_WidthVsSizeOf ==
    /\ (pc = "serialized" /\ ser.res = "Ok") =>
          /\ ser.n = Width(ty)
          /\ ser.n <= SizeOf(ty)
          /\ (ser.n = SizeOf(ty)) <=> PaddingFree(ty)
          /\ IsPrim(ty) => ser.n = SizeOf(ty)
    /\ (pc \in {"deserialized", "roundtrip"} /\ IsComposite(ty)) =>
          \A i \in 1..Len(de.cur) :
              de.cur[i] = (IF i = 1 THEN 0 ELSE de.cur[i - 1]) + SizeOf(ElemTypes(ty)[i])

\* {a: u16, b: u8} has been serialized into 3 bytes; its size_of is 4
C7_Witness ==
    /\ pc = "serialized"
    /\ ty = RecAB
    /\ ser.res = "Ok"
    /\ ser.n = 3
    /\ SizeOf(ty) = 4

\* C8 as stated: on a buffer too short for the whole value, serialize of a
\* sequence or record returns BufferTooSmall; the elements or fields before
\* the first one that does not fit are written as in a successful encode and
\* the bytes from that element's offset on are unchanged.
C8_FailFastPerElement ==
    (pc = "serialized" /\ IsComposite(ty) /\ Len(buf) < Width(ty)) =>
        LET off == FirstMisfit(TopSpans(ty), Len(buf))
        IN  /\ ser.res = "BufferTooSmall"
            /\ Prefix(ser.buf, off) = Prefix(EncOf(ty, val), off)
            /\ Slice(ser.buf, off) = Slice(buf, off)

\* C8, amended: the same with the first primitive element or field that
\* does not fit in place of the first element or field: when the element
\* that fails is itself a sequence or record, its own leading primitives
\* have been written.
C8_FailFastPerPrimitive ==
    (pc = "serialized" /\ IsComposite(ty) /\ Len(buf) < Width(ty)) =>
        LET off == FirstMisfit(LeafSpans(ty, 0), Len(buf))
        IN  /\ ser.res = "BufferTooSmall"
            /\ Len(ser.buf) = Len(buf)
            /\ Prefix(ser.buf, off) = Prefix(EncOf(ty, val), off)
            /\ Slice(ser.buf, off) = Slice(buf, off)

\* {u8, [u16; 2]} met a four-byte buffer: the u8 and the first u16 are
\* written, the byte at offset 3 is untouched
C8_Witness ==
    /\ pc = "serialized"
    /\ ty = StructOf(<<Prim("u8"), ArrayOf(Prim("u16"), 2)>>)
    /\ Len(buf) = 4
    /\ ser.res = "BufferTooSmall"
    /\ Prefix(ser.buf, 3) = Prefix(EncOf(ty, val), 3)
    /\ Prefix(ser.buf, 3) # Prefix(buf, 3)
    /\ Get(ser.buf, 3) = Get(buf, 3)

\* C9 as stated: on a buffer shorter than the type's width, deserialize
\* returns BufferTooSmall without having read a byte, for every type.
C9_LengthCheckedFirst ==
    (pc = "deserialized" /\ Len(buf) < Width(ty)) =>
        (de.res = "BufferTooSmall" /\ de.reads = {} /\ de.val = NoValue)

\* C9, amended: on a buffer shorter than the type's width, deserialize
\* never returns a value; a primitive returns BufferTooSmall without having
\* read a byte; a sequence or record decodes its elements in order and ends
\* with the first failure: BufferTooSmall, InvalidData of a boolean whose
\* byte it has read, or the out-of-range slice of C10 (only for a type with
\* padding); it reads no index outside the buffer.
C9_ShortBufferDecode ==
    (pc = "deserialized" /\ Len(buf) < Width(ty)) =>
        /\ de.res \in {"BufferTooSmall", "InvalidData", "Panic"}
        /\ de.val = NoValue
        /\ IsPrim(ty) => (de.res = "BufferTooSmall" /\ de.reads = {})
        /\ de.res = "InvalidData" => \E i \in de.reads : Get(buf, i) \notin {0, 1}
        /\ de.res = "Panic" => ~PaddingFree(ty)
        /\ de.reads \subseteq 0..(Len(buf) - 1)

\* [bool; 3] met the two bytes [1, 2]: InvalidData, after reading both
C9_Witness ==
    /\ pc = "deserialized"
    /\ ty = ArrayOf(Prim("bool"), 3)
    /\ buf = <<1, 2>>
    /\ de.res = "InvalidData"
    /\ de.reads = {0, 1}

\* C10: no serialize or deserialize call on a sequence or record slices the
\* buffer at a cursor beyond its length; every call returns Ok or Err.
C10_CursorInBounds ==
    /\ pc = "serialized" => ser.res \in {"Ok", "BufferTooSmall"}
    /\ pc \in {"deserialized", "roundtrip"} => de.res \in {"Ok", "BufferTooSmall", "InvalidData"}

====
